---- MODULE Spec2Model ----
(***************************************************************************)
(* HoneyScan core: the dependency-aware orchestrator (core/orchestrator.py) *)
(* and the plugin runner (core/plugin_runner.py), the target registry      *)
(* (core/registry.py) and the collector's host/service identity            *)
(* (core/collector.py).                                                    *)
(***************************************************************************)
EXTENDS Integers, Sequences, FiniteSets, TLC

\* Python None / SQL NULL.
NULL == "NULL"

(***************************************************************************)
(* Bounds of the model.                                                    *)
(***************************************************************************)
\* config["plugins"], in file order.
PluginOrder == <<"P0", "P1", "P2">>
PluginNames == {PluginOrder[i] : i \in 1..Len(PluginOrder)}
\* Longest depends_on list of a plugin.
MaxDeps == 2
\* Longest install command list of a plugin.
MaxCmds == 1
\* Longest scan, in the unit of plugin_durations.
MaxDuration == 1
\* Most add_target calls of a run.
MaxRegCalls == 2
\* Most entries the collector handles in a run.
MaxItems == 2
\* Most artifacts of a plugin in the manifest.
MaxFiles == 2
\* Most entries of a run whose persisting raises.
MaxFailures == 1
\* Most classify_severity calls of a process.
MaxClassifyCalls == 2

VARIABLES
    config,            \* plugin name -> its entry of config["plugins"]
    pc,                \* where orchestrate() is
    graph,             \* orchestrate: graph
    sorted_plugins,    \* orchestrate: sorted_plugins
    executed,          \* orchestrate: executed
    to_run,            \* orchestrate: to_run of the wave being gathered
    results,           \* orchestrate: results (plugin -> paths)
    plugin_durations,  \* orchestrate: plugin_durations
    status,            \* per plugin: where its run_plugin task is
    task,              \* per plugin: what its run_plugin task returned
    how,               \* per plugin: the path run_plugin took (history)
    wave,              \* per plugin: the wave that dispatched it (history)
    waveNo,            \* number of waves dispatched so far (history)
    registry,          \* the rows of table registry
    regSeq,            \* the id sequence of table registry; also the clock
    lastQuery,         \* the last get_targets call and what it returned
    lastWrite,         \* per registry tuple: its add_target calls (history)
    added,             \* per plugin: the tuples it added while scanning (history)
    scan_config,       \* CONFIG["scan_config"]: target_ip, target_domain
    cpc,               \* where collect() is
    hosts,             \* the rows of table hosts, as the transaction sees them
    services,          \* the rows of table services
    vuln,              \* the rows of table vuln
    evidence,          \* the rows of table evidence
    seqs,              \* the id sequences of the four tables
    txnAborted,        \* a statement failed: the transaction is aborted
    committed,         \* the rows of the four tables as last committed
    total_added,       \* process_temp_files: total_added
    grouping,          \* process_temp_files: the plugin group being persisted
    nItems,            \* entries handled so far (history)
    lastItem,          \* the entry handled last and the ids it got (history)
    firstIds,          \* first id returned per host pair, per service key (history)
    argv,              \* __main__: args.purge_only and whether --temp-file is given
    manifest,          \* what is at the path of --temp-file
    exit_status,       \* the exit status of the collector process
    manifestRead,      \* the manifest file was opened (history)
    connected,         \* connect_to_db returned a connection (history)
    truncated,         \* the tables purge_tables truncated, in order (history)
    errorLogged,       \* logging.error or logging.critical was called (history)
    lastFiltered,      \* the entry that met the filters last, and whether it was kept
    SEVERITY_KEYWORDS, \* severity.py: the module-level pattern lists
    nClassify,         \* classify_severity calls so far (history)
    lastClassify,      \* the last classify_severity call and its result (history)
    mergeCall          \* the merge_entries call: its lists and what it returned

orchVars == <<config, pc, graph, sorted_plugins, executed, to_run, results,
              plugin_durations, status, task, how, wave, waveNo>>
regVars == <<registry, regSeq, lastQuery, lastWrite, added>>
mainVars == <<argv, manifest, exit_status, manifestRead, connected, truncated,
              errorLogged>>
colVars == <<scan_config, cpc, hosts, services, vuln, evidence, seqs, txnAborted,
             committed, total_added, grouping, nItems, lastItem, firstIds, mainVars,
             lastFiltered>>
sevVars == <<SEVERITY_KEYWORDS, nClassify, lastClassify>>
mergeVars == <<mergeCall>>
libVars == <<sevVars, mergeVars>>
outsideOrch == <<regVars, colVars, libVars>>
vars == <<orchVars, regVars, colVars, libVars>>

(***************************************************************************)
(* Sequence helpers.                                                       *)
(***************************************************************************)
Range(s) == {s[i] : i \in 1..Len(s)}

\* A function with one more pair (a dict assignment).
Put(f, k, v) == [x \in DOMAIN f \cup {k} |-> IF x = k THEN v ELSE f[x]]

RECURSIVE FilterSeq(_, _)
\* The subsequence of s whose elements are in S (a list comprehension).
FilterSeq(s, S) ==
    IF s = <<>> THEN <<>>
    ELSE IF Head(s) \in S THEN <<Head(s)>> \o FilterSeq(Tail(s), S)
         ELSE FilterSeq(Tail(s), S)

(***************************************************************************)
(* core/orchestrator.py                                                    *)
(***************************************************************************)
\* orchestrate, line 50: the enabled plugins, in config order.
EnabledPlugins(cfg) ==
    FilterSeq(PluginOrder, {p \in PluginNames : cfg[p].enabled})

\* plugin.get("strict_dependencies", default): has_strict says whether the
\* entry has the key.
StrictOf(entry, default) == IF entry.has_strict THEN entry.strict ELSE default

\* build_dependency_graph, lines 16-18: the names of depends_on that are enabled.
EnabledOnlyAll(deps, enabled_names) == deps
EnabledOnly(deps, enabled_names) == {dep \in deps : dep \in enabled_names}

\* build_dependency_graph: called with the enabled plugins only.
build_dependency_graph(cfg, plugin_configs) ==
    LET enabled_names == {p \in Range(plugin_configs) : cfg[p].enabled}
    IN  [name \in Range(plugin_configs) |->
            IF StrictOf(cfg[name], TRUE)
            THEN EnabledOnly(cfg[name].depends_on, enabled_names)
            ELSE {}]

RECURSIVE VisitNeighbors(_, _, _, _, _)
\* topological_sort, lines 37-41: the for loop over the neighbours of node;
\* st = [in_degree, queue].
VisitNeighbors(node, g, keys, i, st) ==
    IF i > Len(keys) THEN st
    ELSE LET neighbor == keys[i]
         IN  IF node \in g[neighbor]
             THEN LET d == st.in_degree[neighbor] - 1
                      st1 == [in_degree |-> [st.in_degree EXCEPT ![neighbor] = d],
                              queue |-> IF d = 0 THEN Append(st.queue, neighbor)
                                        ELSE st.queue]
                  IN  VisitNeighbors(node, g, keys, i + 1, st1)
             ELSE VisitNeighbors(node, g, keys, i + 1, st)

RECURSIVE KahnLoop(_, _, _, _)
\* topological_sort, lines 34-41: the while loop over the queue.
KahnLoop(g, keys, st, result) ==
    IF st.queue = <<>> THEN result
    ELSE LET node == Head(st.queue)
             st1 == VisitNeighbors(node, g, keys, 1,
                                   [in_degree |-> st.in_degree, queue |-> Tail(st.queue)])
         IN  KahnLoop(g, keys, st1, Append(result, node))

\* topological_sort, lines 42-43: the length check that raises RuntimeError.
CycleDetectedNever(result, g) == FALSE
CycleDetected(result, g) == Len(result) # Cardinality(DOMAIN g)

\* topological_sort: keys is the iteration order of the dict graph.
topological_sort(g, keys) ==
    LET in_degree == [n \in DOMAIN g |-> Cardinality(g[n])]
        queue == FilterSeq(keys, {n \in DOMAIN g : in_degree[n] = 0})
        result == KahnLoop(g, keys, [in_degree |-> in_degree, queue |-> queue], <<>>)
    IN  [raised |-> CycleDetected(result, g), result |-> result]

\* orchestrate, lines 64-65: is name ready to run?
ReadyIfAnyDep(deps, done) == deps = {} \/ deps \cap done # {}
ReadyProperSubset(deps, done) == deps \subseteq done /\ deps # done
Ready(deps, done) == deps \subseteq done

RECURSIVE ToRunFirstOnly(_, _, _)
ToRunFirstOnly(sorted, g, done) ==
    IF sorted = <<>> THEN <<>>
    ELSE IF Head(sorted) \notin done /\ Ready(g[Head(sorted)], done)
         THEN <<Head(sorted)>>
         ELSE ToRunFirstOnly(Tail(sorted), g, done)

RECURSIVE ToRun(_, _, _)
\* orchestrate, lines 60-66: the plugins of the next wave.
ToRun(sorted, g, done) ==
    IF sorted = <<>> THEN <<>>
    ELSE LET name == Head(sorted)
             rest == ToRun(Tail(sorted), g, done)
         IN  IF name \in done THEN rest
             ELSE IF Ready(g[name], done) THEN <<name>> \o rest
             ELSE rest

(***************************************************************************)
(* core/plugin_runner.py                                                   *)
(***************************************************************************)
\* What one install command does: exit status 0, exit status # 0, or an error
\* raised while running it or decoding its stderr.
CmdOutcomes == {"ok", "nonzero", "error"}

RECURSIVE RunInstallCmds(_, _)
\* install_plugin, lines 100-114: the tool is absent, run the commands in order.
RunInstallCmds(oc, i) ==
    IF i > Len(oc) THEN "true"
    ELSE IF oc[i] = "error" THEN "raise"
    ELSE IF oc[i] = "nonzero" THEN "false"
    ELSE RunInstallCmds(oc, i + 1)

\* install_plugin: oc holds the outcome of each install command, in order;
\* the result is what the coroutine does: return True, return False, or raise.
install_plugin(oc, already_installed, outdated) ==
    IF Len(oc) = 0 THEN "true"
    ELSE IF already_installed
         THEN IF outdated
              THEN IF \E i \in 1..Len(oc) : oc[i] = "error" THEN "raise" ELSE "true"
              ELSE "true"
         ELSE RunInstallCmds(oc, 1)

\* What scan(CONFIG) gives back: it raises, or returns a string, a list of
\* strings, a list of dicts, or something else (None).
ScanOutcomes == {"raise", "str", "list_str", "list_dict", "none"}

\* run_plugin, lines 145-154: the returned value in manifest form.
NormalizePaths(name, ret) ==
    CASE ret = "str" -> <<[plugin |-> name, path |-> "a"]>>
      [] ret = "list_str" -> <<[plugin |-> name, path |-> "a"]>>
      [] ret = "list_dict" -> <<[plugin |-> name, path |-> "a"]>>
      [] OTHER -> <<>>

EmptyResult == [paths |-> <<>>, duration |-> 0]

\* run_plugin, lines 124-138: from the call to just before scan() is awaited.
\* "scan": scan() is awaited next; "empty": ([], 0) is returned; "raise": the
\* error of install_plugin leaves run_plugin.
BeforeScan(installed, file_exists, has_scan) ==
    IF installed = "raise" THEN "raise"
    ELSE IF installed = "false" THEN "empty"
    ELSE IF ~file_exists THEN "empty"
    ELSE IF ~has_scan THEN "empty"
    ELSE "scan"

\* run_plugin, lines 140-160: what the task does once scan() is over.
AfterScanUncaught(name, outcome, duration) ==
    IF outcome = "raise" THEN [kind |-> "raised", res |-> EmptyResult]
    ELSE [kind |-> "returned",
          res |-> [paths |-> NormalizePaths(name, outcome), duration |-> duration]]
AfterScan(name, outcome, duration) ==
    IF outcome = "raise" THEN [kind |-> "returned", res |-> EmptyResult]
    ELSE [kind |-> "returned",
          res |-> [paths |-> NormalizePaths(name, outcome), duration |-> duration]]

(***************************************************************************)
(* core/registry.py                                                        *)
(***************************************************************************)
\* The registry tuples of the model: (target_type, target_value, port, protocol).
\* A port is written as its decimal string.
RegPorts == {NULL, "443"}
RegProtocols == {NULL, "tcp"}
RegKeys == [target_type : {"ip"}, target_value : {"10.0.0.1"},
            port : RegPorts, protocol : RegProtocols]
RegStatuses == {"new", "scanned"}
\* The tags a plugin passes: the first plugin of the file tags its targets.
TagsOf(p) == IF p = PluginOrder[1] THEN {"web"} ELSE {}
\* The meta object a plugin passes names the plugin.
MetaOf(p) == [by |-> p]

\* SQL "a = b" in a WHERE clause: never true of a NULL.
SqlEq(a, b) == a # NULL /\ b # NULL /\ a = b

\* Python truthiness of an optional string argument (None and "" are false).
Truthy(x) == x # NULL /\ x # ""

\* The unique index behind ON CONFLICT (target_type, target_value, port,
\* protocol) is declared in the schema, which states one row per tuple, the
\* port and the protocol being nullable: two NULLs count as the same value.
RegistryNullsDistinct == FALSE

\* Two values of one column collide in the unique index of table registry.
IndexEq(a, b) ==
    IF a = NULL \/ b = NULL THEN a = b /\ ~RegistryNullsDistinct ELSE a = b

\* The tuple of a registry row.
KeyOf(row) == [target_type |-> row.target_type, target_value |-> row.target_value,
               port |-> row.port, protocol |-> row.protocol]

\* The rows that conflict with an insertion of tuple k (lines 42-44).
Conflicting(reg, k) ==
    {r \in reg : /\ IndexEq(r.target_type, k.target_type)
                 /\ IndexEq(r.target_value, k.target_value)
                 /\ IndexEq(r.port, k.port)
                 /\ IndexEq(r.protocol, k.protocol)}

\* add_target, lines 45-47: DO UPDATE SET status, updated_at.
OnConflictDoNothing(row, st, now) == row
OnConflictNewRow(row, st, now) ==
    [row EXCEPT !.status = st, !.updated_at = now, !.created_at = now]
OnConflict(row, st, now) == [row EXCEPT !.status = st, !.updated_at = now]

\* add_target: the table after the call and the id it returns. id is the
\* next value of the sequence, which the statement draws before it looks
\* for a conflict; now is the time of the call.
add_target(reg, id, now, k, source_plugin, tags, st) ==
    LET hit == Conflicting(reg, k)
    IN  IF hit = {}
        THEN [reg |-> reg \cup {[id |-> id, target_type |-> k.target_type,
                                 target_value |-> k.target_value, port |-> k.port,
                                 protocol |-> k.protocol,
                                 source_plugin |-> source_plugin, status |-> st,
                                 tags |-> tags, meta |-> MetaOf(source_plugin),
                                 created_at |-> now,
                                 updated_at |-> now]},
              id |-> id]
        ELSE [reg |-> (reg \ hit) \cup {OnConflict(r, st, now) : r \in hit},
              id |-> (CHOOSE r \in hit : TRUE).id]

\* get_targets, line 74: the columns of the SELECT list.
Selected(row) == [id |-> row.id, target_type |-> row.target_type,
                  target_value |-> row.target_value, port |-> row.port,
                  protocol |-> row.protocol, status |-> row.status,
                  tags |-> row.tags, meta |-> row.meta]

\* get_targets, lines 82-84: the clause for filter_plugin.
PluginClause(row, filter_plugin) ==
    Truthy(filter_plugin) => SqlEq(row.source_plugin, filter_plugin)

\* get_targets: a clause is added for every argument that is truthy; filter_tags
\* is a set, empty for None and for [].
get_targets(reg, filter_status, filter_type, filter_plugin, filter_tags, protocol) ==
    {Selected(r) : r \in
        {r \in reg :
            /\ Truthy(filter_status) => SqlEq(r.status, filter_status)
            /\ Truthy(filter_type) => SqlEq(r.target_type, filter_type)
            /\ PluginClause(r, filter_plugin)
            /\ filter_tags # {} => r.tags \cap filter_tags # {}
            /\ Truthy(protocol) => SqlEq(r.protocol, protocol)}}

NoQuery == [caller |-> NULL]

RegInit ==
    /\ registry = {}
    /\ regSeq = 0
    /\ lastQuery = NoQuery
    /\ lastWrite = << >>
    /\ added = [p \in PluginNames |-> {}]

\* A call add_target(k..., source_plugin, tags, status).
AddTargetCall(k, source_plugin, tags, st) ==
    /\ regSeq < MaxRegCalls
    /\ LET r == add_target(registry, regSeq + 1, regSeq + 1, k, source_plugin, tags, st)
       IN  registry' = r.reg
    /\ regSeq' = regSeq + 1
    /\ lastWrite' = Put(lastWrite, k,
                        [status |-> st, at |-> regSeq + 1,
                         first |-> IF k \in DOMAIN lastWrite THEN lastWrite[k].first
                                   ELSE source_plugin,
                         firstAt |-> IF k \in DOMAIN lastWrite THEN lastWrite[k].firstAt
                                     ELSE regSeq + 1,
                         last |-> source_plugin,
                         n |-> IF k \in DOMAIN lastWrite THEN lastWrite[k].n + 1
                               ELSE 1])
    /\ UNCHANGED lastQuery

\* A call get_targets(filter_status, filter_plugin=..., protocol=...) by caller.
GetTargetsCall(caller, filter_status, filter_plugin, protocol) ==
    /\ lastQuery' = [caller |-> caller, filter_status |-> filter_status,
                     filter_plugin |-> filter_plugin, protocol |-> protocol,
                     at |-> regSeq,
                     rows |-> get_targets(registry, filter_status, NULL,
                                          filter_plugin, {}, protocol)]
    /\ UNCHANGED <<registry, regSeq, lastWrite>>

(***************************************************************************)
(* core/collector.py                                                       *)
(***************************************************************************)
\* No id: the ids of the tables start at 1.
NoId == 0

\* Python "a or b" on optional strings.
Or(a, b) == IF Truthy(a) THEN a ELSE b

\* process_temp_files, lines 238-243: the host pair of an entry.
HostPair(item, sc) ==
    [ip |-> Or(item.ip, IF item.target_type = "ip" THEN sc.target_ip ELSE NULL),
     fqdn |-> Or(item.fqdn, IF item.target_type = "domain" THEN sc.target_domain ELSE NULL)]

\* get_or_create_host, lines 79-80: the rows the SELECT finds.
HostLookup(hs, ip, fqdn) == {h \in hs : SqlEq(h.ip, ip) /\ SqlEq(h.fqdn, fqdn)}

\* get_or_create_host: the table after the call and the id returned; id is
\* the next value of the sequence, drawn by the INSERT alone.
get_or_create_host(hs, id, ip, fqdn) ==
    LET found == HostLookup(hs, ip, fqdn)
    IN  IF found # {}
        THEN [rows |-> hs, id |-> (CHOOSE h \in found : TRUE).id, inserted |-> FALSE]
        ELSE [rows |-> hs \cup {[id |-> id, ip |-> ip, fqdn |-> fqdn]},
              id |-> id, inserted |-> TRUE]

\* process_temp_files, lines 248-252: the port of an entry. The raw values
\* are: no port key (NULL), a non-digit string ("-"), zero ("0") and a port
\* number or its digit string ("80"); int() of the last two is 0 and 80.
RawPorts == {NULL, "-", "0", "80"}
PortOf(raw) == IF raw \in {"0", "80"} THEN raw ELSE NULL

\* process_temp_files, line 260: "if port and protocol and service_name".
HasService(port, protocol, service_name) ==
    /\ port # NULL /\ port # "0"
    /\ Truthy(protocol)
    /\ Truthy(service_name)

\* get_or_create_service, lines 102-106: the rows the SELECT finds.
ServiceLookupNone(svcs, key) == {}
ServiceLookup(svcs, key) ==
    {r \in svcs : r.host_id = key.host_id
                  /\ SqlEq(r.port, key.port) /\ SqlEq(r.protocol, key.protocol)
                  /\ SqlEq(r.service_name, key.service_name)
                  /\ SqlEq(r.plugin, key.plugin)}

\* get_or_create_service: key = (host_id, port, protocol, service_name, plugin).
get_or_create_service(svcs, id, key) ==
    LET found == ServiceLookup(svcs, key)
    IN  IF found # {}
        THEN [rows |-> svcs, id |-> (CHOOSE r \in found : TRUE).id, inserted |-> FALSE]
        ELSE [rows |-> svcs \cup {[id |-> id, host_id |-> key.host_id,
                                   port |-> key.port, protocol |-> key.protocol,
                                   service_name |-> key.service_name,
                                   plugin |-> key.plugin]},
              id |-> id, inserted |-> TRUE]

\* str(v).strip() on the values of the model.
StrStrip(v) ==
    CASE v = " out" -> "out"
      [] v = " - " -> "-"
      [] v = NULL -> "None"
      [] OTHER -> v

\* entry.get(k, default) on an entry of the collector, where NULL says that
\* the entry has no key k.
ItemGet(entry, k, default) == IF entry[k] = NULL THEN default ELSE entry[k]

\* is_meaningful_entry, lines 71-75.
is_meaningful_entry_always(entry, important_fields) == TRUE
is_meaningful_entry(entry, important_fields) ==
    ~ \A i \in 1..Len(important_fields) :
          StrStrip(ItemGet(entry, important_fields[i], "-"))
              \in {"-", "", "None", "null", "0"}

\* process_temp_files, lines 200-202: what get_important_fields of the
\* plugin returns; of the plugins of the model the first has the function
\* (as nmap has, with these fields among its ten), the others have none.
ImportantFieldsOf(plugin_name) ==
    IF plugin_name = PluginOrder[1] THEN <<"port", "protocol", "service_name">> ELSE << >>

\* process_temp_files, line 206: the parser has merge_entries (nmap alone).
HasMergeEntries(plugin_name) == plugin_name = PluginOrder[1]

\* nmap.py, merge_entries, lines 257-264: is_empty as the plugin applies it
\* to an entry before merging; an empty entry is in no merged list.
MergeDrops(entry, important_fields) ==
    \A i \in 1..Len(important_fields) :
        StrStrip(ItemGet(entry, important_fields[i], "-"))
            \in {"-", "", "null", "None", "0"}

\* process_temp_files, lines 216 and 224: the condition of the filter.
Kept(entry, important_fields) ==
    important_fields = << >> \/ is_meaningful_entry(entry, important_fields)

\* The entries of the model, as the parsers hand them to the collector: the
\* fields that name the host, those that name the service, and the evidence.
HostFields ==
    {[ip |-> "10.0.0.1", fqdn |-> "h.example", target_type |-> NULL],
     [ip |-> "10.0.0.1", fqdn |-> NULL, target_type |-> NULL],
     [ip |-> NULL, fqdn |-> NULL, target_type |-> "ip"],
     [ip |-> NULL, fqdn |-> "h.example", target_type |-> NULL]}
ServiceFields ==
    {[port |-> "80", protocol |-> "tcp", service_name |-> "http"],
     [port |-> "80", protocol |-> "tcp", service_name |-> "-"],
     [port |-> "0", protocol |-> "tcp", service_name |-> "http"],
     [port |-> "-", protocol |-> "tcp", service_name |-> "http"],
     [port |-> "0", protocol |-> " - ", service_name |-> "null"],
     [port |-> NULL, protocol |-> NULL, service_name |-> NULL]}
EvidenceFields ==
    {[evidence_path |-> FALSE, raw_log |-> FALSE],
     [evidence_path |-> TRUE, raw_log |-> TRUE]}
\* The entry with these fields.
Item(h, sv, e) ==
    [ip |-> h.ip, fqdn |-> h.fqdn, target_type |-> h.target_type,
     port |-> sv.port, protocol |-> sv.protocol, service_name |-> sv.service_name,
     evidence_path |-> e.evidence_path, raw_log |-> e.raw_log,
     severity |-> NULL]
\* Every host with the service 80/tcp/http and no evidence; the host with ip
\* and fqdn with every service and no evidence, and with the service
\* 80/tcp/http and evidence.
Items ==
    {Item(h, [port |-> "80", protocol |-> "tcp", service_name |-> "http"],
          [evidence_path |-> FALSE, raw_log |-> FALSE]) : h \in HostFields}
    \cup {Item([ip |-> "10.0.0.1", fqdn |-> "h.example", target_type |-> NULL], sv,
               [evidence_path |-> FALSE, raw_log |-> FALSE]) : sv \in ServiceFields}
    \cup {Item([ip |-> "10.0.0.1", fqdn |-> "h.example", target_type |-> NULL],
               [port |-> "80", protocol |-> "tcp", service_name |-> "http"], e) :
             e \in EvidenceFields}

\* What an entry declares as its severity: nothing (no key), one of the five
\* levels, or a word that is none of them.
DeclaredSeverities == {NULL, "high", "unknown"}
\* The entries that declare these, for the host with ip and fqdn and the
\* service 80/tcp/http.
DeclaringItems ==
    {[Item([ip |-> "10.0.0.1", fqdn |-> "h.example", target_type |-> NULL],
           [port |-> "80", protocol |-> "tcp", service_name |-> "http"],
           [evidence_path |-> FALSE, raw_log |-> TRUE]) EXCEPT !.severity = sev] :
        sev \in DeclaredSeverities}

\* process_temp_files, line 282: severity = item.get("severity", "info").
SeverityOf(item) == ItemGet(item, "severity", "info")

\* Where the persisting of an entry may raise (lines 237-329): in
\* get_or_create_host, get_or_create_service, create_vuln, or the first
\* create_evidence of the entry.
FailPoints == {"host", "service", "vuln", "evidence"}
\* What raises: Python code before the statement is sent ("py"), or the
\* statement in the database ("db"), which aborts the transaction.
FailKinds == {"py", "db"}
\* How the persisting of an entry goes.
Outcomes == {[at |-> "none", kind |-> NULL]} \cup [at : FailPoints, kind : FailKinds]

Tables == [hosts |-> hosts, services |-> services, vuln |-> vuln, evidence |-> evidence]

NoItem == [plugin |-> NULL]

\* process_temp_files, line 206: a group of nfiles artifacts takes the merge
\* path.
MergePath(plugin_name, nfiles) == HasMergeEntries(plugin_name) /\ nfiles > 1

\* The current group takes the merge path.
OnMergePath == grouping.merge

\* The important fields of an entry of the model.
FieldsOf(item) ==
    [port |-> item.port, protocol |-> item.protocol, service_name |-> item.service_name]

\* The entry of the current group reaches the loop of line 236: on the merge
\* path merge_entries has not dropped it, and the filter keeps it.
Persisted(item) ==
    /\ OnMergePath => ~MergeDrops(item, ImportantFieldsOf(grouping.current))
    /\ Kept(item, ImportantFieldsOf(grouping.current))

\* What can be at the path of --temp-file: no file; a file that is not
\* JSON; JSON without the key "paths"; "paths": null; "paths": []; a list
\* with an entry that is no object; a list of artifact entries.
Manifests ==
    {"absent", "not_json", "no_paths", "paths_null", "paths_empty", "bad_entry", "ok"}

\* "if not temp_files" of collect, line 345.
FalsyPaths == {"paths_null", "paths_empty"}

\* The command lines of the collector.
Argvs == [purge_only : BOOLEAN, temp_file : BOOLEAN]

\* The four tables of the collector with no row.
EmptyTables == [hosts |-> {}, services |-> {}, vuln |-> {}, evidence |-> {}]
\* The tables as an earlier run left them: one finding with its evidence.
FilledTables ==
    [hosts |-> {[id |-> 1, ip |-> "10.0.0.1", fqdn |-> "h.example"]},
     services |-> {[id |-> 1, host_id |-> 1, port |-> "80", protocol |-> "tcp",
                    service_name |-> "http", plugin |-> PluginOrder[1]]},
     vuln |-> {[id |-> 1, host_id |-> 1, service_id |-> 1, plugin |-> PluginOrder[1],
                severity |-> "info"]},
     evidence |-> {[id |-> 1, vuln_id |-> 1]}]

\* The collector process before __main__ runs: its command line, the
\* manifest, and the database it finds.
ColInitWith(a, m, db) ==
    /\ scan_config = [target_ip |-> "10.0.0.1", target_domain |-> "h.example"]
    /\ cpc = "start"
    /\ hosts = db.hosts /\ services = db.services
    /\ vuln = db.vuln /\ evidence = db.evidence
    /\ seqs = [hosts |-> Cardinality(db.hosts), services |-> Cardinality(db.services),
               vuln |-> Cardinality(db.vuln), evidence |-> Cardinality(db.evidence)]
    /\ txnAborted = FALSE
    /\ committed = db
    /\ argv = a
    /\ manifest = m
    /\ exit_status = 0
    /\ manifestRead = FALSE
    /\ connected = FALSE
    /\ truncated = << >>
    /\ errorLogged = FALSE
    /\ total_added = 0
    /\ grouping = [current |-> NULL, done |-> {}, merge |-> FALSE]
    /\ lastFiltered = NoItem
    /\ nItems = [handled |-> 0, failed |-> 0]
    /\ lastItem = NoItem
    /\ firstIds = [hosts |-> << >>, services |-> << >>]

ColInit == ColInitWith([purge_only |-> FALSE, temp_file |-> TRUE], "ok", EmptyTables)

\* What the try body of lines 237-326 does to the tables for one entry of
\* plugin_name, when it raises at fail ("none": it does not raise). The
\* statements before the failing one have run.
PersistEntry(item, plugin_name, fail) ==
    LET pair == HostPair(item, scan_config)
        h == IF fail = "host"
             THEN [rows |-> hosts, id |-> NoId, inserted |-> FALSE]
             ELSE get_or_create_host(hosts, seqs.hosts + 1, pair.ip, pair.fqdn)
        port == PortOf(item.port)
        wantsService == fail # "host" /\ HasService(port, item.protocol, item.service_name)
        key == [host_id |-> h.id, port |-> port, protocol |-> item.protocol,
                service_name |-> item.service_name, plugin |-> plugin_name]
        sv == IF wantsService /\ fail # "service"
              THEN get_or_create_service(services, seqs.services + 1, key)
              ELSE [rows |-> services, id |-> NoId, inserted |-> FALSE]
        reachedVuln == fail \in {"none", "vuln", "evidence"}
        vulnDone == fail \in {"none", "evidence"}
        vid == seqs.vuln + 1
        ev1 == vulnDone /\ item.evidence_path /\ fail = "none"
        ev2 == vulnDone /\ item.raw_log /\ fail = "none"
        ev1id == seqs.evidence + 1
        ev2id == seqs.evidence + (IF ev1 THEN 2 ELSE 1)
    IN  [hosts |-> h.rows,
         services |-> sv.rows,
         vuln |-> IF vulnDone
                  THEN vuln \cup {[id |-> vid, host_id |-> h.id, service_id |-> sv.id,
                                   plugin |-> plugin_name,
                                   severity |-> SeverityOf(item)]}
                  ELSE vuln,
         evidence |-> evidence
                      \cup (IF ev1 THEN {[id |-> ev1id, vuln_id |-> vid]} ELSE {})
                      \cup (IF ev2 THEN {[id |-> ev2id, vuln_id |-> vid]} ELSE {}),
         seqs |-> [hosts |-> seqs.hosts + (IF h.inserted THEN 1 ELSE 0),
                   services |-> seqs.services + (IF sv.inserted THEN 1 ELSE 0),
                   vuln |-> seqs.vuln + (IF vulnDone THEN 1 ELSE 0),
                   evidence |-> seqs.evidence + (IF ev1 THEN 1 ELSE 0)
                                              + (IF ev2 THEN 1 ELSE 0)],
         pair |-> pair,
         host_id |-> h.id,
         key |-> key,
         service_id |-> sv.id,
         calledService |-> wantsService /\ fail # "service",
         hostInserted |-> h.inserted,
         serviceInserted |-> sv.inserted,
         reachable |-> /\ (fail = "service" => wantsService)
                       /\ (fail = "evidence" => (item.evidence_path \/ item.raw_log))]

\* The with statement of collect, line 338, ends: the connection commits when
\* the block ended without an exception and rolls back when it raised. seen
\* is the tables as the transaction sees them, last as last committed.
ConnExitCommits(raised, seen, last) == seen
ConnExit(raised, seen, last) == IF raised THEN last ELSE seen

\* __main__, lines 369-389: the branch the command line a selects.
ModeTempFileFirst(a) ==
    IF a.temp_file THEN "temp_file" ELSE IF a.purge_only THEN "purge" ELSE "none"
Mode(a) ==
    IF a.purge_only THEN "purge" ELSE IF a.temp_file THEN "temp_file" ELSE "none"

\* __main__, lines 371-383, takes the --temp-file branch and the manifest
\* loads as an object with the key "paths".
Loads == Mode(argv) = "temp_file" /\ manifest \in (FalsyPaths \cup {"bad_entry", "ok"})

\* __main__, lines 369-370, and collect, lines 340-343: purge mode. The
\* five tables are truncated with their sequences reset; the with statement
\* commits.
PurgeOnly ==
    /\ cpc = "start"
    /\ Mode(argv) = "purge"
    /\ connected' = TRUE
    /\ truncated' = <<"evidence", "vuln", "services", "hosts", "registry">>
    /\ hosts' = {} /\ services' = {} /\ vuln' = {} /\ evidence' = {}
    /\ seqs' = [hosts |-> 0, services |-> 0, vuln |-> 0, evidence |-> 0]
    /\ registry' = {} /\ regSeq' = 0
    /\ committed' = ConnExit(FALSE, EmptyTables, committed)
    /\ cpc' = "purged"
    /\ UNCHANGED <<scan_config, txnAborted, total_added, grouping, nItems, lastItem,
                   firstIds, argv, manifest, exit_status, manifestRead, errorLogged>>
    /\ UNCHANGED lastFiltered
    /\ UNCHANGED <<orchVars, lastQuery, lastWrite, added, libVars>>

\* __main__, lines 388-389: neither mode is requested.
NoMode ==
    /\ cpc = "start"
    /\ Mode(argv) = "none"
    /\ errorLogged' = TRUE
    /\ cpc' = "exited"
    /\ UNCHANGED <<scan_config, hosts, services, vuln, evidence, seqs, txnAborted,
                   committed, total_added, grouping, nItems, lastItem, firstIds,
                   argv, manifest, exit_status, manifestRead, connected, truncated>>
    /\ UNCHANGED lastFiltered
    /\ UNCHANGED <<orchVars, regVars, libVars>>

\* __main__, lines 372-387: the manifest does not load. A path with no file
\* is logged (386-387); a file that is not JSON raises in json.load and the
\* except clause logs it (384-385); JSON without "paths" is logged and the
\* process exits with 1 (379-381; SystemExit is no Exception).
ManifestRejected ==
    /\ cpc = "start"
    /\ Mode(argv) = "temp_file"
    /\ manifest \in {"absent", "not_json", "no_paths"}
    /\ manifestRead' = (manifest # "absent")
    /\ errorLogged' = TRUE
    /\ exit_status' = IF manifest = "no_paths" THEN 1 ELSE 0
    /\ cpc' = "exited"
    /\ UNCHANGED <<scan_config, hosts, services, vuln, evidence, seqs, txnAborted,
                   committed, total_added, grouping, nItems, lastItem, firstIds,
                   argv, manifest, connected, truncated>>
    /\ UNCHANGED lastFiltered
    /\ UNCHANGED <<orchVars, regVars, libVars>>

\* connect_to_db, lines 37-39: the connection fails and the process exits.
ConnectFailed ==
    /\ cpc = "start"
    /\ Mode(argv) = "purge" \/ Loads
    /\ manifestRead' = (Mode(argv) # "purge")
    /\ errorLogged' = TRUE
    /\ exit_status' = 1
    /\ cpc' = "aborted"
    /\ UNCHANGED <<scan_config, hosts, services, vuln, evidence, seqs, txnAborted,
                   committed, total_added, grouping, nItems, lastItem, firstIds,
                   argv, manifest, connected, truncated>>
    /\ UNCHANGED lastFiltered
    /\ UNCHANGED <<orchVars, regVars, libVars>>

\* collect, lines 345-347: the paths of the manifest are null or empty; the
\* with statement commits a transaction that wrote nothing.
NoTempFiles ==
    /\ cpc = "start"
    /\ Loads /\ manifest \in FalsyPaths
    /\ manifestRead' = TRUE
    /\ connected' = TRUE
    /\ errorLogged' = TRUE
    /\ committed' = ConnExit(FALSE, Tables, committed)
    /\ cpc' = "exited"
    /\ UNCHANGED <<scan_config, hosts, services, vuln, evidence, seqs, txnAborted,
                   total_added, grouping, nItems, lastItem, firstIds,
                   argv, manifest, exit_status, truncated>>
    /\ UNCHANGED lastFiltered
    /\ UNCHANGED <<orchVars, regVars, libVars>>

\* collect, lines 338-349: the connection is open and the manifest is given.
StartCollect ==
    /\ cpc = "start"
    /\ Loads /\ manifest \notin FalsyPaths
    /\ manifestRead' = TRUE
    /\ connected' = TRUE
    /\ cpc' = "processing"
    /\ UNCHANGED <<scan_config, hosts, services, vuln, evidence, seqs, txnAborted,
                   committed, total_added, grouping, nItems, lastItem, firstIds,
                   argv, manifest, exit_status, truncated, errorLogged>>
    /\ UNCHANGED lastFiltered
    /\ UNCHANGED <<orchVars, regVars, libVars>>

\* An exception leaves process_temp_files: an entry of the manifest that is
\* no object raises in the grouping loop (line 183), before any group; the
\* get_important_fields of a plugin raises (line 202) when its group starts.
\* The with statement rolls back, collect logs and exits with 1 (352-354).
FatalError(plugin_name) ==
    /\ cpc = "processing"
    /\ IF manifest = "bad_entry"
       THEN grouping.current = NULL /\ grouping.done = {}
       ELSE plugin_name # grouping.current /\ plugin_name \notin grouping.done
    /\ \E db \in {ConnExit(TRUE, Tables, committed)} :
          /\ hosts' = db.hosts /\ services' = db.services
          /\ vuln' = db.vuln /\ evidence' = db.evidence
          /\ committed' = db
    /\ txnAborted' = FALSE
    /\ errorLogged' = TRUE
    /\ exit_status' = 1
    /\ cpc' = "aborted"
    /\ UNCHANGED <<scan_config, seqs, total_added, grouping, nItems, lastItem, firstIds,
                   argv, manifest, manifestRead, connected, truncated>>
    /\ UNCHANGED lastFiltered
    /\ UNCHANGED <<orchVars, regVars, libVars>>

\* process_temp_files, line 189: the loop over the plugin groups moves on to
\* the group of plugin_name, which has nfiles artifacts in the manifest.
NextGroup(plugin_name) ==
    /\ cpc = "processing"
    /\ manifest = "ok"
    /\ plugin_name # grouping.current
    /\ plugin_name \notin grouping.done
    /\ \E nfiles \in 1..MaxFiles :
          grouping' = [current |-> plugin_name,
                       done |-> grouping.done \cup ({grouping.current} \ {NULL}),
                       merge |-> MergePath(plugin_name, nfiles)]
    /\ UNCHANGED <<scan_config, cpc, hosts, services, vuln, evidence, seqs, txnAborted,
                   committed, total_added, nItems, lastItem, firstIds, mainVars>>
    /\ UNCHANGED lastFiltered
    /\ UNCHANGED <<orchVars, regVars, libVars>>

\* process_temp_files, lines 236-329: one entry of the current group. In an
\* aborted transaction the first statement (the SELECT of get_or_create_host)
\* raises; an entry that raises is logged and skipped.
ProcessItem(item, outcome) ==
    /\ cpc = "processing"
    /\ grouping.current # NULL
    /\ nItems.handled < MaxItems
    /\ Persisted(item)
    /\ lastFiltered' = [plugin |-> grouping.current, item |-> FieldsOf(item),
                        merge |-> OnMergePath, kept |-> TRUE]
    /\ outcome.at # "none" => nItems.failed < MaxFailures /\ ~txnAborted
    /\ LET f == IF txnAborted THEN "host" ELSE outcome.at
       IN  \E r \in {PersistEntry(item, grouping.current, f)} :
           /\ r.reachable
           /\ hosts' = r.hosts
           /\ services' = r.services
           /\ vuln' = r.vuln
           /\ evidence' = r.evidence
           /\ seqs' = r.seqs
           /\ txnAborted' = (txnAborted \/ outcome.kind = "db")
           /\ total_added' = total_added + (IF f = "none" THEN 1 ELSE 0)
           /\ lastItem' = [plugin |-> grouping.current, pair |-> r.pair,
                           host_id |-> r.host_id, key |-> r.key,
                           service_id |-> r.service_id,
                           calledService |-> r.calledService,
                           hostInserted |-> r.hostInserted,
                           serviceInserted |-> r.serviceInserted, fail |-> f]
           /\ firstIds' =
                 [hosts |-> IF r.host_id = NoId \/ r.pair \in DOMAIN firstIds.hosts
                            THEN firstIds.hosts
                            ELSE Put(firstIds.hosts, r.pair, r.host_id),
                  services |-> IF ~r.calledService \/ r.key \in DOMAIN firstIds.services
                               THEN firstIds.services
                               ELSE Put(firstIds.services, r.key, r.service_id)]
           /\ nItems' = [handled |-> nItems.handled + 1,
                         failed |-> nItems.failed + (IF outcome.at = "none" THEN 0 ELSE 1)]
    /\ UNCHANGED <<scan_config, cpc, committed, grouping, mainVars>>
    /\ UNCHANGED <<orchVars, regVars, libVars>>

\* process_temp_files, lines 206-227: an entry of the current group that
\* merge_entries or the filter drops; it is not in results.
DropItem(item) ==
    /\ cpc = "processing"
    /\ grouping.current # NULL
    /\ nItems.handled < MaxItems
    /\ ~Persisted(item)
    /\ lastFiltered' = [plugin |-> grouping.current, item |-> FieldsOf(item),
                        merge |-> OnMergePath, kept |-> FALSE]
    /\ nItems' = [nItems EXCEPT !.handled = @ + 1]
    /\ UNCHANGED <<scan_config, cpc, hosts, services, vuln, evidence, seqs, txnAborted,
                   committed, total_added, grouping, lastItem, firstIds, mainVars>>
    /\ UNCHANGED <<orchVars, regVars, libVars>>

\* collect, line 350: conn.commit(). The COMMIT of an aborted transaction
\* rolls it back and raises nothing.
Commit ==
    /\ cpc = "processing"
    /\ manifest = "ok"
    /\ IF txnAborted
       THEN /\ hosts' = committed.hosts /\ services' = committed.services
            /\ vuln' = committed.vuln /\ evidence' = committed.evidence
            /\ UNCHANGED committed
       ELSE /\ committed' = Tables
            /\ UNCHANGED <<hosts, services, vuln, evidence>>
    /\ txnAborted' = FALSE
    /\ cpc' = "done"
    /\ UNCHANGED <<scan_config, seqs, total_added, grouping, nItems, lastItem, firstIds,
                   mainVars>>
    /\ UNCHANGED lastFiltered
    /\ UNCHANGED <<orchVars, regVars, libVars>>

(***************************************************************************)
(* core/severity.py                                                        *)
(*                                                                         *)
(* A text is a sequence of words. The patterns of the module are of two    *)
(* shapes: \bw\b, which a text matches when it has the word w, and         *)
(* \ba\b.{0,32}\b(b)\b, which it matches when a word b follows a word a.   *)
(* The word "cve" stands for a CVE identifier.                             *)
(***************************************************************************)
SEVERITY_LEVELS == <<"critical", "high", "medium", "low", "info">>

Word(w) == [kind |-> "word", a |-> w, b |-> w]
Near(w1, w2) == [kind |-> "near", a |-> w1, b |-> w2]

\* SEVERITY_KEYWORDS as the module defines it: of each level the patterns
\* whose words the entries of the model have, in the order of the file.
BuiltInKeywords ==
    [critical |-> <<Near("cve", "exploit"), Word("exploit")>>,
     high |-> <<Word("cve"), Word("exploit"), Word("anonymous")>>,
     medium |-> <<Word("open")>>,
     low |-> <<Word("filtered")>>]

\* str.lower() on the words and states of the model.
Lower(w) ==
    CASE w = "Exploit" -> "exploit"
      [] w = "OPEN" -> "open"
      [] OTHER -> w

\* The words of a state value: "|" is no word character.
WordsOf(state) ==
    IF state = "open|filtered" THEN <<"open", "filtered">> ELSE <<state>>

\* re.search(pattern, text, re.IGNORECASE); the text is lower case already.
Search(pattern, text) ==
    IF pattern.kind = "word"
    THEN \E i \in 1..Len(text) : text[i] = Lower(pattern.a)
    ELSE \E i, j \in 1..Len(text) :
            i < j /\ text[i] = Lower(pattern.a) /\ text[j] = Lower(pattern.b)

\* classify_severity, lines 54-69: the lower-case text of the fields; the
\* entries of the model have script_output and state.
TextOf(entry) ==
    [i \in 1..Len(entry.script_output) |-> Lower(entry.script_output[i])]
    \o (IF Truthy(entry.state)
        THEN [i \in 1..Len(WordsOf(entry.state)) |-> Lower(WordsOf(entry.state)[i])]
        ELSE << >>)

\* entry.get("state", "").lower()
StateOf(entry) == IF entry.state = NULL THEN "" ELSE Lower(entry.state)

\* Values of the key state that are no strings: the None of a JSON null and
\* the int 1, written here as words of their own.
NonStringStates == {"<None>", "<1>"}

\* classify_severity, line 71: .lower() of a value that is no string raises
\* AttributeError.
StateRaises(entry) == entry.state \in NonStringStates

\* "not entry": the entry is an empty dict.
IsEmptyEntry(entry) == entry.script_output = << >> /\ entry.state = NULL

\* custom_keywords: a dict from levels to pattern lists; None and the empty
\* dict, which line 78 treats alike, are the empty function.
CustomOf(custom_keywords, sev) ==
    IF sev \in DOMAIN custom_keywords THEN custom_keywords[sev] ELSE << >>
CustomLevels(custom_keywords) == DOMAIN custom_keywords

\* classify_severity, lines 77-82: keywords is a shallow copy of the module
\* dict, so extend() on the list of a level the module has extends the
\* list of the module; a level the module does not have gets a new list in
\* the copy alone. This is the module dict after the lines.
ExtendShared(module_keywords, custom_keywords) ==
    [sev \in DOMAIN module_keywords |->
        module_keywords[sev] \o CustomOf(custom_keywords, sev)]

\* classify_severity, lines 77-82: the dict keywords after the lines.
LocalKeywords(module_keywords, custom_keywords) ==
    [sev \in DOMAIN module_keywords \cup CustomLevels(custom_keywords) |->
        (IF sev \in DOMAIN module_keywords THEN module_keywords[sev] ELSE << >>)
        \o CustomOf(custom_keywords, sev)]

\* keywords.get(severity, []) and the inner loop of lines 86-88.
AnyMatch(keywords, severity, text) ==
    /\ severity \in DOMAIN keywords
    /\ \E i \in 1..Len(keywords[severity]) : Search(keywords[severity][i], text)

\* classify_severity, lines 84-88: the loop over SEVERITY_LEVELS from the
\* i-th level on; NULL when it ends without a match.
CascadeLastWins(keywords, text, i) ==
    LET hits == {j \in i..Len(SEVERITY_LEVELS) :
                    AnyMatch(keywords, SEVERITY_LEVELS[j], text)}
    IN  IF hits = {} THEN NULL
        ELSE SEVERITY_LEVELS[CHOOSE j \in hits : \A k \in hits : k <= j]
RECURSIVE Cascade(_, _, _)
Cascade(keywords, text, i) ==
    IF i > Len(SEVERITY_LEVELS) THEN NULL
    ELSE IF AnyMatch(keywords, SEVERITY_LEVELS[i], text) THEN SEVERITY_LEVELS[i]
    ELSE Cascade(keywords, text, i + 1)

\* classify_severity(entry, custom_keywords) when the module dict is
\* module_keywords: the level returned, or the exception raised in its
\* place, and the module dict after the call.
classify_severity(entry, custom_keywords, module_keywords) ==
    IF IsEmptyEntry(entry)
    THEN [level |-> "info", module |-> module_keywords, keywords |-> module_keywords]
    ELSE IF StateRaises(entry)
    THEN [level |-> "AttributeError", module |-> module_keywords,
          keywords |-> module_keywords]
    ELSE IF StateOf(entry) \in {"open|filtered", "filtered"}
    THEN [level |-> "low", module |-> module_keywords, keywords |-> module_keywords]
    ELSE LET keywords == LocalKeywords(module_keywords, custom_keywords)
             found == Cascade(keywords, TextOf(entry), 1)
         IN  [level |-> IF found # NULL THEN found
                        ELSE IF StateOf(entry) = "open" THEN "medium" ELSE "info",
              module |-> ExtendShared(module_keywords, custom_keywords),
              keywords |-> keywords]

\* The entries and the custom_keywords of the model.
\* The script_output texts: the third is the sample of lines 97-100,
\* "Anonymous FTP login allowed. CVE-2021-12345 exploit."
ScriptOutputs ==
    {<< >>, <<"foo">>, <<"anonymous", "cve", "Exploit">>, <<"cve">>, <<"Exploit">>,
     <<"Exploit", "cve">>, <<"cve", "foo">>, <<"anonymous">>, <<"filtered">>,
     <<"filtered", "foo">>}
EntryStates ==
    {NULL, "", "open", "OPEN", "filtered", "open|filtered", "closed"} \cup NonStringStates
SeverityEntries == [script_output : ScriptOutputs, state : EntryStates]
CustomKeywords ==
    {<< >>} \cup {[sev \in {l} |-> <<Word("foo")>>] : l \in {"critical", "low", "info"}}

NoClassify == [level |-> NULL]

SevInit ==
    /\ SEVERITY_KEYWORDS = BuiltInKeywords
    /\ nClassify = 0
    /\ lastClassify = NoClassify


\* One call of classify_severity.
Classify(entry, custom_keywords) ==
    /\ nClassify < MaxClassifyCalls
    /\ \E r \in {classify_severity(entry, custom_keywords, SEVERITY_KEYWORDS)} :
          /\ SEVERITY_KEYWORDS' = r.module
          /\ lastClassify' = [entry |-> entry, custom_keywords |-> custom_keywords,
                              level |-> r.level, keywords |-> r.keywords]
    /\ nClassify' = nClassify + 1
    /\ UNCHANGED <<orchVars, regVars, colVars, mergeVars>>

(***************************************************************************)
(* plugins/nmap.py: merge_entries                                          *)
(*                                                                         *)
(* An entry is a record of its important fields and its source; a field    *)
(* the dict does not have is MISSING. A source label is the sequence of    *)
(* its "+"-separated tokens.                                               *)
(***************************************************************************)
MISSING == "MISSING"

\* get_important_fields, lines 234-246: the fields the entries of the model
\* have, in the order of the file.
IMPORTANT_FIELDS == <<"port", "protocol", "service_name", "script_output">>

\* entry.get(k, default)
Get(entry, k, default) == IF entry[k] = MISSING THEN default ELSE entry[k]

\* merge_entries, lines 257-261: is_empty.
is_empty(entry) ==
    \A i \in 1..Len(IMPORTANT_FIELDS) :
        StrStrip(Get(entry, IMPORTANT_FIELDS[i], "-")) \in {"-", "", "null", "None", "0"}

\* The source tokens of the model in sorted() order.
TokenOrder == <<"domain_tcp", "ip_tcp">>

\* "+".join(sorted(tokens))
RECURSIVE SortedJoin(_, _)
SortedJoin(tokens, i) ==
    IF i > Len(TokenOrder) THEN << >>
    ELSE (IF TokenOrder[i] \in tokens THEN <<TokenOrder[i]>> ELSE << >>)
         \o SortedJoin(tokens, i + 1)

\* merge_sources, lines 249-250; a.split("+") is Range(a).
merge_sources_concat(a, b) == a \o b
merge_sources(a, b) == SortedJoin(Range(a) \cup Range(b), 1)

\* merge_entries, line 265: the key of an entry.
EntryKey(entry) ==
    <<Get(entry, "port", NULL), Get(entry, "protocol", NULL),
      Get(entry, "service_name", NULL)>>

\* merge_entries, lines 268-281: the loop that compares entry and existing.
Identical(entry, existing) ==
    \A i \in 1..Len(IMPORTANT_FIELDS) :
        LET v1 == StrStrip(Get(entry, IMPORTANT_FIELDS[i], "-"))
            v2 == StrStrip(Get(existing, IMPORTANT_FIELDS[i], "-"))
        IN  \/ (v1 \in {"-", "", "None", "null"} /\ v2 \in {"-", "", "None", "null"})
            \/ v1 = v2

\* merge_entries, lines 286-291: the script_output of the merged entry.
\* format_script_output of the two texts joined strips the lines, drops the
\* empty ones and "-", and keeps each line once.
CombinedOutput(existing, entry) ==
    IF entry.script_output # MISSING /\ existing.script_output # MISSING
       /\ entry.script_output # existing.script_output
    THEN IF StrStrip(existing.script_output) \in {"-", ""}
            /\ StrStrip(entry.script_output) \in {"-", ""}
         THEN "-"
         ELSE IF StrStrip(existing.script_output) \in {"-", ""}
         THEN StrStrip(entry.script_output)
         ELSE StrStrip(existing.script_output)
    ELSE existing.script_output

\* merged[key] = entry: merged is the dict as the sequence of its items.
DictSet(merged, key, entry) ==
    IF \E i \in 1..Len(merged) : merged[i].key = key
    THEN [i \in 1..Len(merged) |->
            IF merged[i].key = key THEN [key |-> key, entry |-> entry] ELSE merged[i]]
    ELSE Append(merged, [key |-> key, entry |-> entry])

\* merge_entries, lines 264-296: the body of the loop for one entry.
MergeOne(merged, entry) ==
    IF is_empty(entry) THEN merged
    ELSE LET key == EntryKey(entry)
         IN  IF \E i \in 1..Len(merged) : merged[i].key = key
             THEN LET existing == (CHOOSE m \in Range(merged) : m.key = key).entry
                  IN  IF Identical(entry, existing)
                      THEN DictSet(merged, key,
                              [existing EXCEPT
                                 !.source = merge_sources(existing.source, entry.source),
                                 !.script_output = CombinedOutput(existing, entry)])
                      ELSE DictSet(merged, Append(key, entry.source), entry)
             ELSE DictSet(merged, key, entry)

\* merge_entries, lines 263-264: the two loops, from entry j of list i on.
RECURSIVE MergeLoop(_, _, _, _)
MergeLoop(entry_lists, i, j, merged) ==
    IF i > Len(entry_lists) THEN merged
    ELSE IF j > Len(entry_lists[i]) THEN MergeLoop(entry_lists, i + 1, 1, merged)
    ELSE MergeLoop(entry_lists, i, j + 1, MergeOne(merged, entry_lists[i][j]))

\* merge_entries(*entry_lists): list(merged.values()).
merge_entries(entry_lists) ==
    LET merged == MergeLoop(entry_lists, 1, 1, << >>)
    IN  [i \in 1..Len(merged) |-> merged[i].entry]

\* The entries of the model, and the calls: two lists of one entry each.
MergeEntries ==
    [port : {"80", "0", MISSING}, protocol : {"tcp", "-"},
     service_name : {"http", "-"}, script_output : {"-", "0", "out", " out"},
     source : {<<"ip_tcp">>, <<"domain_tcp">>, <<"ip_tcp", "domain_tcp">>}]
MergeCalls == {<<<<a>>, <<b>>>> : a, b \in MergeEntries}

\* Observations of one port: calls with three of them, in three lists or
\* with the last two in one list.
PortEntries ==
    [port : {"80"}, protocol : {"tcp"}, service_name : {"http"},
     script_output : {"-", "out", "err"}, source : {<<"ip_tcp">>, <<"domain_tcp">>}]
MergeCallsMany ==
    {<<<<a>>, <<b>>, <<c>>>> : a, b, c \in PortEntries}
    \cup {<<<<a>>, <<b, c>>>> : a, b, c \in PortEntries}

NoMerge == [lists |-> << >>, result |-> << >>]

MergeInit == mergeCall = NoMerge

LibInit == SevInit /\ MergeInit

\* One call of merge_entries.
Merge(entry_lists) ==
    /\ mergeCall = NoMerge
    /\ mergeCall' = [lists |-> entry_lists, result |-> merge_entries(entry_lists)]
    /\ UNCHANGED <<orchVars, regVars, colVars, sevVars>>

(***************************************************************************)
(* The configurations of the model: every plugin is disabled, or enabled   *)
(* with strict_dependencies true or false and a depends_on list of at most *)
(* MaxDeps names (its own name included: a plugin may list itself).        *)
(***************************************************************************)
\* A name that depends_on may hold and no entry of the file has.
UnknownPlugin == "PX"
DepNames == PluginNames \cup {UnknownPlugin}
DepSets == {D \in SUBSET PluginNames : Cardinality(D) <= MaxDeps}

ConfigEntries == [enabled : BOOLEAN, has_strict : BOOLEAN, strict : BOOLEAN,
                  depends_on : SUBSET DepNames]

\* The entries plugin p may have. orchestrate never reads the flags or the
\* list of a disabled plugin, nor the list of a plugin that is not strict: the
\* model keeps one disabled entry, and gives a plugin that is not strict the
\* list of all the other plugins. A strict plugin has any list of DepSets, or
\* the unknown name and another plugin; a plugin without the key
\* strict_dependencies names one other plugin. The other plugin is the first
\* in file order.
OtherPlugin(p) == IF p = PluginOrder[1] THEN PluginOrder[2] ELSE PluginOrder[1]

EntriesOf(p) ==
    {[enabled |-> FALSE, has_strict |-> TRUE, strict |-> TRUE, depends_on |-> {}],
     [enabled |-> TRUE, has_strict |-> TRUE, strict |-> FALSE,
      depends_on |-> PluginNames \ {p}]}
    \cup [enabled : {TRUE}, has_strict : {TRUE}, strict : {TRUE}, depends_on : DepSets]
    \cup [enabled : {TRUE}, has_strict : {TRUE}, strict : {TRUE},
          depends_on : {{UnknownPlugin, OtherPlugin(p)}}]
    \cup [enabled : {TRUE}, has_strict : {FALSE}, strict : {FALSE},
          depends_on : {{OtherPlugin(p)}}]

Configs == {c \in [PluginNames -> ConfigEntries] : \A p \in PluginNames : c[p] \in EntriesOf(p)}

\* The install command outcomes of one plugin: a list of at most MaxCmds.
CmdOutcomeLists == UNION {[1..n -> CmdOutcomes] : n \in 0..MaxCmds}

\* Wall-clock durations of a scan, rounded (line 142).
Durations == 0..MaxDuration

TypeOK ==
    /\ config \in [PluginNames -> ConfigEntries]
    /\ pc \in {"start", "cyclic", "loop", "gather", "crashed", "done"}
    /\ executed \subseteq PluginNames
    /\ status \in [PluginNames -> {"idle", "scheduled", "scanning", "returned", "raised"}]

OrchInit(cfgs) ==
    /\ config \in cfgs
    /\ pc = "start"
    /\ graph = << >>
    /\ sorted_plugins = << >>
    /\ executed = {}
    /\ to_run = << >>
    /\ results = << >>
    /\ plugin_durations = << >>
    /\ status = [p \in PluginNames |-> "idle"]
    /\ task = [p \in PluginNames |-> EmptyResult]
    /\ how = [p \in PluginNames |-> "none"]
    /\ wave = [p \in PluginNames |-> 0]
    /\ waveNo = 0

Init == OrchInit(Configs) /\ RegInit /\ ColInit /\ LibInit

\* orchestrate, lines 50-54: resolve the graph and sort it; a cycle raises.
Resolve ==
    /\ pc = "start"
    /\ LET enabled_plugins == EnabledPlugins(config)
           g == build_dependency_graph(config, enabled_plugins)
           ts == topological_sort(g, enabled_plugins)
       IN  /\ graph' = g
           /\ IF ts.raised
              THEN pc' = "cyclic" /\ sorted_plugins' = << >>
              ELSE pc' = "loop" /\ sorted_plugins' = ts.result
    /\ UNCHANGED <<config, executed, to_run, results, plugin_durations, status,
                   task, how, wave, waveNo>>
    /\ UNCHANGED outsideOrch

\* orchestrate, lines 59-76: the loop test, the wave, one coroutine per plugin.
DispatchWave ==
    /\ pc = "loop"
    /\ Cardinality(executed) < Len(sorted_plugins)
    /\ LET tr == ToRun(sorted_plugins, graph, executed)
       IN  /\ to_run' = tr
           /\ status' = [p \in PluginNames |->
                            IF p \in Range(tr) THEN "scheduled" ELSE status[p]]
           /\ waveNo' = IF tr = << >> THEN waveNo ELSE waveNo + 1
           /\ wave' = [p \in PluginNames |->
                            IF p \in Range(tr) THEN waveNo + 1 ELSE wave[p]]
    /\ pc' = "gather"
    /\ UNCHANGED <<config, graph, sorted_plugins, executed, results,
                   plugin_durations, task, how>>
    /\ UNCHANGED outsideOrch

\* orchestrate, lines 59 and 85: the loop ends and the results are returned.
Return ==
    /\ pc = "loop"
    /\ ~(Cardinality(executed) < Len(sorted_plugins))
    /\ pc' = "done"
    /\ UNCHANGED <<config, graph, sorted_plugins, executed, to_run, results,
                   plugin_durations, status, task, how, wave, waveNo>>
    /\ UNCHANGED outsideOrch

\* run_plugin, lines 117-138: the task of p starts; install_plugin, the plugin
\* file and its scan attribute decide whether scan() is awaited.
StartPlugin(p) ==
    /\ pc = "gather"
    /\ status[p] = "scheduled"
    /\ \E oc \in CmdOutcomeLists, already_installed \in BOOLEAN, outdated \in BOOLEAN,
          file_exists \in BOOLEAN, has_scan \in BOOLEAN :
          LET installed == install_plugin(oc, already_installed, outdated)
              next == BeforeScan(installed, file_exists, has_scan)
          IN  /\ status' = [status EXCEPT ![p] =
                    CASE next = "scan" -> "scanning"
                      [] next = "empty" -> "returned"
                      [] OTHER -> "raised"]
              /\ how' = [how EXCEPT ![p] =
                    CASE installed = "raise" -> "install_error"
                      [] installed = "false" -> "install_failed"
                      [] next = "empty" -> "no_scan"
                      [] OTHER -> "scan_started"]
    /\ task' = [task EXCEPT ![p] = EmptyResult]
    /\ UNCHANGED <<config, pc, graph, sorted_plugins, executed, to_run, results,
                   plugin_durations, wave, waveNo>>
    /\ UNCHANGED outsideOrch

\* run_plugin, lines 140-160: scan() of p is over.
FinishScan(p) ==
    /\ pc = "gather"
    /\ status[p] = "scanning"
    /\ \E outcome \in ScanOutcomes, duration \in Durations :
          LET r == AfterScan(p, outcome, duration)
          IN  /\ status' = [status EXCEPT ![p] = r.kind]
              /\ task' = [task EXCEPT ![p] = r.res]
              /\ how' = [how EXCEPT ![p] =
                    IF outcome = "raise" THEN "scan_raised" ELSE "scan_ok"]
    /\ UNCHANGED <<config, pc, graph, sorted_plugins, executed, to_run, results,
                   plugin_durations, wave, waveNo>>
    /\ UNCHANGED outsideOrch

\* asyncio.gather, line 77: every task of the wave has returned.
GatherFirstCompleted(tr, st) == \E i \in 1..Len(tr) : st[tr[i]] = "returned"
GatherDone(tr, st) == \A i \in 1..Len(tr) : st[tr[i]] = "returned"

\* orchestrate, line 77: a task raised, gather raises in orchestrate, which
\* has no handler: the run ends and the tasks still pending are cancelled.
GatherRaises ==
    /\ pc = "gather"
    /\ \E i \in 1..Len(to_run) : status[to_run[i]] = "raised"
    /\ pc' = "crashed"
    /\ UNCHANGED <<config, graph, sorted_plugins, executed, to_run, results,
                   plugin_durations, status, task, how, wave, waveNo>>
    /\ UNCHANGED outsideOrch

RECURSIVE RecordLoop(_, _, _, _)
\* orchestrate, lines 79-83: acc = [results, plugin_durations, executed].
RecordLoop(tr, i, tk, acc) ==
    IF i > Len(tr) THEN acc
    ELSE RecordLoop(tr, i + 1, tk,
            [results |-> Put(acc.results, tr[i], tk[tr[i]].paths),
             plugin_durations |-> Put(acc.plugin_durations, tr[i], tk[tr[i]].duration),
             executed |-> acc.executed \cup {tr[i]}])

\* orchestrate, lines 77-83: gather returns and the wave is recorded.
RecordWave ==
    /\ pc = "gather"
    /\ GatherDone(to_run, status)
    /\ ~ \E i \in 1..Len(to_run) : status[to_run[i]] = "raised"
    /\ LET acc == RecordLoop(to_run, 1, task,
                     [results |-> results, plugin_durations |-> plugin_durations,
                      executed |-> executed])
       IN  /\ results' = acc.results
           /\ plugin_durations' = acc.plugin_durations
           /\ executed' = acc.executed
    /\ pc' = "loop"
    /\ UNCHANGED <<config, graph, sorted_plugins, to_run, status, task, how,
                   wave, waveNo>>
    /\ UNCHANGED outsideOrch

Next ==
    \/ Resolve
    \/ DispatchWave
    \/ Return
    \/ \E p \in PluginNames : StartPlugin(p)
    \/ \E p \in PluginNames : FinishScan(p)
    \/ GatherRaises
    \/ RecordWave

Spec == Init /\ [][Next]_vars

(***************************************************************************)
(* Definitions the properties share.                                       *)
(***************************************************************************)
EnabledNames == {p \in PluginNames : config[p].enabled}

\* The task of p was created by orchestrate (line 76) or has gone further.
Started(p) == status[p] # "idle"
\* The run_plugin call of p is over.
Completed(p) == status[p] \in {"returned", "raised"}
\* The task of p exists and is not over.
Running(p) == status[p] \in {"scheduled", "scanning"}
\* The wave loop has recorded p (lines 81-83).
Recorded(p) ==
    /\ p \in executed
    /\ p \in DOMAIN results /\ results[p] = task[p].paths
    /\ p \in DOMAIN plugin_durations /\ plugin_durations[p] = task[p].duration

RECURSIVE DepsWithin(_, _, _)
\* The plugins reached from the set S along at most k dependency edges of g.
DepsWithin(g, S, k) ==
    IF k = 0 THEN S
    ELSE DepsWithin(g, S \cup UNION {g[x] : x \in S \cap DOMAIN g}, k - 1)

\* g has a cycle: some plugin is among its own transitive dependencies.
HasCycle(g) ==
    \E n \in DOMAIN g : n \in DepsWithin(g, g[n], Cardinality(DOMAIN g))

(***************************************************************************)
(* C1. For every edge of the resolved graph (b has a in its dependency     *)
(* set), the run_plugin call of a is over, and recorded by the wave loop,  *)
(* before the run_plugin call of b is started.                             *)
(***************************************************************************)
C1_DependencyFirst ==
    \A b \in DOMAIN graph : \A a \in graph[b] :
        Started(b) => status[a] = "returned" /\ a \in executed

\* A plugin with two dependencies is scanning in the third wave.
C1_Witness ==
    \E b \in DOMAIN graph :
        Cardinality(graph[b]) = 2 /\ status[b] = "scanning" /\ wave[b] = 3

(***************************************************************************)
(* C2. If the resolved graph has a cycle, orchestrate ends with the        *)
(* cyclic-dependency error and no run_plugin task was ever created.        *)
(***************************************************************************)
C2_CycleRejected ==
    (pc # "start" /\ HasCycle(graph)) =>
        /\ pc = "cyclic"
        /\ \A p \in PluginNames : status[p] = "idle"
        /\ results = << >> /\ executed = {}

\* Two plugins that depend on each other, and the error.
C2_Witness ==
    /\ pc = "cyclic"
    /\ \E a, b \in DOMAIN graph : a # b /\ a \in graph[b] /\ b \in graph[a]

(***************************************************************************)
(* C3. A wave holds exactly the enabled plugins that are not yet executed  *)
(* and whose dependency set is within the executed set, each once.         *)
(***************************************************************************)
C3_WaveMaximal ==
    pc = "gather" =>
        /\ Range(to_run) =
              {n \in EnabledNames \ executed : graph[n] \subseteq executed}
        /\ Cardinality(Range(to_run)) = Len(to_run)

\* The second wave holds two plugins.
C3_Witness == pc = "gather" /\ waveNo = 2 /\ Len(to_run) = 2

(***************************************************************************)
(* C4. The waves are separated by a barrier: the tasks that run at the     *)
(* same time are of one wave, and once a plugin of a later wave has been   *)
(* started every plugin of the earlier waves has returned and its          *)
(* artifacts and duration are recorded.                                    *)
(***************************************************************************)
C4_Barrier ==
    \A p, q \in PluginNames :
        /\ (Running(p) /\ Running(q)) => wave[p] = wave[q]
        /\ (Started(p) /\ 0 < wave[q] /\ wave[q] < wave[p]) =>
               status[q] = "returned" /\ Recorded(q)

\* A plugin of the second wave scans, after a first wave of two plugins.
C4_Witness ==
    \E p, q, r \in PluginNames :
        /\ q # r /\ wave[q] = 1 /\ wave[r] = 1
        /\ wave[p] = 2 /\ status[p] = "scanning"

(***************************************************************************)
(* C5. A plugin whose scan raises returns no artifact and duration 0, its  *)
(* exception does not leave run_plugin, and a run that ends has recorded   *)
(* every enabled plugin, with what its task returned.                      *)
(***************************************************************************)
C5_ScanFailureIsolated ==
    /\ \A p \in PluginNames :
          how[p] = "scan_raised" =>
              /\ status[p] = "returned" /\ task[p] = EmptyResult
              /\ p \in executed => results[p] = << >> /\ plugin_durations[p] = 0
    /\ pc = "crashed" =>
          \E p \in PluginNames : status[p] = "raised" /\ how[p] # "scan_raised"
    /\ pc = "done" => \A p \in EnabledNames : Recorded(p)

\* The run is over: a scan raised in the first wave, and a plugin of the same
\* wave and one of a later wave have their artifacts in the results.
C5_Witness ==
    /\ pc = "done"
    /\ \E p, q, r \in PluginNames :
          /\ how[p] = "scan_raised" /\ wave[p] = 1
          /\ q # p /\ wave[q] = 1 /\ how[q] = "scan_ok" /\ results[q] # << >>
          /\ wave[r] = 2 /\ how[r] = "scan_ok" /\ results[r] # << >>

(***************************************************************************)
(* C6. A failed install disables only that plugin: run_plugin returns no   *)
(* artifact and duration 0 without scanning, and neither a False result    *)
(* nor an error of install_plugin ends the run of the other plugins.       *)
(***************************************************************************)
C6_InstallFailureIsolated ==
    /\ \A p \in PluginNames :
          how[p] \in {"install_failed", "install_error"} =>
              status[p] = "returned" /\ task[p] = EmptyResult
    /\ pc # "crashed"

(***************************************************************************)
(* The registry handoff: plugins call add_target and get_targets while     *)
(* they scan, under the orchestrator. The plugins are all enabled and      *)
(* strict, and a depends_on list names plugins earlier in the file.        *)
(***************************************************************************)
Before(p) == {PluginOrder[j] : j \in {i \in 1..Len(PluginOrder) :
                 \E m \in 1..Len(PluginOrder) : PluginOrder[m] = p /\ i < m}}

HandoffConfigs ==
    {c \in Configs : \A p \in PluginNames :
        /\ c[p].enabled /\ c[p].has_strict /\ c[p].strict
        /\ c[p].depends_on \subseteq Before(p)}

\* The tuple a plugin registers in the handoff (nmap.py, lines 426-438).
HandoffKey == [target_type |-> "ip", target_value |-> "10.0.0.1",
               port |-> "443", protocol |-> "tcp"]

\* nmap.scan, lines 426-438: a scanning plugin registers a target under its
\* own name, with the default status.
ScanAddTarget(p) ==
    /\ pc = "gather"
    /\ status[p] = "scanning"
    /\ AddTargetCall(HandoffKey, p, TagsOf(p), "new")
    /\ added' = [added EXCEPT ![p] = @ \cup {HandoffKey}]
    /\ UNCHANGED <<orchVars, colVars, libVars>>

\* nikto.get_targets_from_registry, lines 193-198: a scanning plugin reads the
\* tcp targets of a plugin its depends_on names.
ScanGetTargets(p) ==
    /\ pc = "gather"
    /\ status[p] = "scanning"
    /\ \E filter_plugin \in config[p].depends_on :
          GetTargetsCall(p, NULL, filter_plugin, "tcp")
    /\ UNCHANGED <<orchVars, colVars, libVars, added>>

InitHandoff == OrchInit(HandoffConfigs) /\ RegInit /\ ColInit /\ LibInit

NextHandoff ==
    \/ Next
    \/ \E p \in PluginNames : ScanAddTarget(p)
    \/ \E p \in PluginNames : ScanGetTargets(p)

SpecHandoff == InitHandoff /\ [][NextHandoff]_vars

(***************************************************************************)
(* The registry alone: any plugin calls add_target and get_targets, in any *)
(* order.                                                                  *)
(***************************************************************************)
IdleConfigs ==
    {[p \in PluginNames |->
        [enabled |-> TRUE, has_strict |-> TRUE, strict |-> TRUE, depends_on |-> {}]]}

\* The plugins that call the registry.
RegistryPlugins == {PluginOrder[1], PluginOrder[2]}

AddTarget ==
    /\ \E p \in RegistryPlugins, k \in RegKeys, st \in RegStatuses :
          AddTargetCall(k, p, TagsOf(p), st)
    /\ UNCHANGED <<orchVars, colVars, libVars, added>>

\* The registry does not know its caller: the record names the first plugin.
GetTargets ==
    /\ \E filter_status \in {NULL} \cup RegStatuses,
          filter_plugin \in {NULL} \cup RegistryPlugins, protocol \in {NULL, "tcp"} :
          GetTargetsCall(PluginOrder[1], filter_status, filter_plugin, protocol)
    /\ UNCHANGED <<orchVars, colVars, libVars, added>>

InitRegistry == OrchInit(IdleConfigs) /\ RegInit /\ ColInit /\ LibInit

NextRegistry == AddTarget \/ GetTargets

SpecRegistry == InitRegistry /\ [][NextRegistry]_vars

C25_ConflictFrame ==
    /\ \A k \in DOMAIN lastWrite : \A r \in registry :
          (KeyOf(r) = k /\ k.port # NULL /\ k.protocol # NULL) =>
              /\ r.id = lastWrite[k].firstAt
              /\ r.created_at = lastWrite[k].firstAt
              /\ r.source_plugin = lastWrite[k].first
              /\ r.tags = TagsOf(lastWrite[k].first)
              /\ r.meta = MetaOf(lastWrite[k].first)
              /\ r.status = lastWrite[k].status
              /\ r.updated_at = lastWrite[k].at
    /\ (lastQuery.caller # NULL /\ lastQuery.at = regSeq /\ Truthy(lastQuery.filter_plugin)) =>
          \A row \in lastQuery.rows :
              (row.port # NULL /\ row.protocol # NULL) =>
                  lastWrite[KeyOf(row)].first = lastQuery.filter_plugin

\* The first plugin registered a tuple as new, the second registered it
\* again as scanned: the row is that of the first with the new status, and
\* get_targets with filter_plugin naming the second returns nothing.
C25_Witness ==
    \E k \in DOMAIN lastWrite : \E r \in registry :
        /\ KeyOf(r) = k /\ k.port # NULL /\ k.protocol # NULL
        /\ lastWrite[k].n = 2
        /\ lastWrite[k].first = PluginOrder[1] /\ lastWrite[k].last = PluginOrder[2]
        /\ r.source_plugin = PluginOrder[1] /\ r.tags = {"web"}
        /\ r.created_at = 1 /\ r.updated_at = 2 /\ r.status = "scanned"
        /\ lastQuery.caller # NULL /\ lastQuery.at = regSeq
        /\ lastQuery.filter_plugin = PluginOrder[2]
        /\ lastQuery.rows = {}

(***************************************************************************)
(* The collector alone: one run of collect() over the entries of a         *)
(* manifest, grouped by plugin.                                            *)
(***************************************************************************)
CollectorPlugins == {PluginOrder[1], PluginOrder[2]}

\* The registry rows an earlier run left.
FilledRegistry ==
    {[id |-> 1, target_type |-> "ip", target_value |-> "10.0.0.1", port |-> "80",
      protocol |-> "tcp", source_plugin |-> PluginOrder[1], status |-> "new",
      tags |-> {}, meta |-> MetaOf(PluginOrder[1]), created_at |-> 1,
      updated_at |-> 1]}

\* The databases a collector process may find: empty, or with the rows of an
\* earlier run.
InitialDbs ==
    {[tables |-> EmptyTables, registry |-> {}],
     [tables |-> FilledTables, registry |-> FilledRegistry]}

InitCollector ==
    /\ OrchInit(IdleConfigs)
    /\ LibInit
    /\ \E a \in Argvs, m \in Manifests, db \in InitialDbs :
          /\ ColInitWith(a, m, db.tables)
          /\ registry = db.registry
          /\ regSeq = Cardinality(db.registry)
          /\ lastQuery = NoQuery
          /\ lastWrite = << >>
          /\ added = [p \in PluginNames |-> {}]

NextCollector ==
    \/ PurgeOnly
    \/ NoMode
    \/ ManifestRejected
    \/ ConnectFailed
    \/ NoTempFiles
    \/ StartCollect
    \/ \E plugin_name \in CollectorPlugins : FatalError(plugin_name)
    \/ \E plugin_name \in CollectorPlugins : NextGroup(plugin_name)
    \/ \E item \in Items, outcome \in Outcomes : ProcessItem(item, outcome)
    \/ \E item \in Items : DropItem(item)
    \/ Commit

SpecCollector == InitCollector /\ [][NextCollector]_vars

\* The identity of a service row and of a host row.
ServiceKey(r) == <<r.host_id, r.port, r.protocol, r.service_name, r.plugin>>
HostKey(h) == <<h.ip, h.fqdn>>

\* No two rows of the table have the same identity.
NoDuplicateServices(rows) ==
    \A r1, r2 \in rows : ServiceKey(r1) = ServiceKey(r2) => r1 = r2
NoDuplicateHosts(rows) ==
    \A h1, h2 \in rows : HostKey(h1) = HostKey(h2) => h1 = h2

\* C9: service identity. A call of get_or_create_service returns the id
\* that the first call with the same (host_id, port, protocol, service_name,
\* plugin) returned and, until the transaction ends, that id is the id of a
\* row with this identity; the services table never holds two rows with the
\* same identity, neither as the transaction sees it nor as committed.
C9_ServiceIdentity ==
    /\ NoDuplicateServices(services)
    /\ NoDuplicateServices(committed.services)
    /\ (lastItem.plugin # NULL /\ lastItem.calledService) =>
          /\ lastItem.key \in DOMAIN firstIds.services
          /\ lastItem.service_id = firstIds.services[lastItem.key]
          /\ cpc = "processing" =>
                \E r \in services : /\ r.id = lastItem.service_id
                                     /\ ServiceKey(r) = ServiceKey(lastItem.key)

\* A run is committed whose last entry named a service that an earlier entry
\* had created: get_or_create_service found the row and inserted none.
C9_Witness ==
    /\ cpc = "done"
    /\ lastItem.plugin # NULL
    /\ lastItem.calledService
    /\ ~lastItem.serviceInserted
    /\ \E r \in committed.services : r.id = lastItem.service_id

\* C10: host identity. After a collector run the hosts table holds at most
\* one row per (ip, fqdn) pair, null ip or fqdn included, and an entry with
\* the pair of an earlier entry got the id that get_or_create_host returned
\* for the first entry with that pair.
C10_HostIdentity ==
    cpc = "done" =>
        /\ NoDuplicateHosts(committed.hosts)
        /\ (lastItem.plugin # NULL /\ lastItem.host_id # NoId) =>
              lastItem.host_id = firstIds.hosts[lastItem.pair]

\* The raw values of the model whose string form, stripped, is a sentinel;
\* NULL is a missing field.
SentinelValues == {NULL, "-", " - ", "", "None", "null", "0"}

\* The plugin declares important fields and all of them are sentinels in item.
AllSentinel(item, plugin_name) ==
    /\ ImportantFieldsOf(plugin_name) # << >>
    /\ \A i \in 1..Len(ImportantFieldsOf(plugin_name)) :
          item[ImportantFieldsOf(plugin_name)[i]] \in SentinelValues

(***************************************************************************)
(* C11: meaningfulness filter. On the merge path and on the per-artifact   *)
(* path, an entry is kept iff its plugin declares no important field or at *)
(* least one important field of the entry is no sentinel, and a step of    *)
(* the run that adds a row to hosts, services, vuln or evidence is the     *)
(* step of a kept entry: an entry whose important fields are all sentinels *)
(* adds no row.                                                            *)
(***************************************************************************)
C11_MeaningfulnessFilter ==
    /\ [](lastFiltered.plugin # NULL =>
            (lastFiltered.kept <=> ~AllSentinel(lastFiltered.item, lastFiltered.plugin)))
    /\ [][(cpc' = "processing" /\ Tables' # Tables) =>
             /\ lastFiltered'.kept
             /\ lastFiltered'.plugin = grouping.current
             /\ ~AllSentinel(lastFiltered'.item, lastFiltered'.plugin)]_vars

\* After an entry of the plugin was persisted, an entry of the same group on
\* the merge path whose protocol is a padded "-" and whose other important
\* fields are sentinels was dropped, and the tables have no row for it.
C11_Witness ==
    /\ cpc = "processing"
    /\ lastFiltered.plugin = PluginOrder[1]
    /\ lastFiltered.merge
    /\ ~lastFiltered.kept
    /\ lastFiltered.item.protocol = " - "
    /\ total_added = 1
    /\ Cardinality(vuln) = Cardinality(committed.vuln) + 1

C16_ExactlyOneMode ==
    (cpc # "start" /\ argv.purge_only = argv.temp_file) =>
        /\ errorLogged
        /\ exit_status # 0
        /\ ~connected /\ truncated = << >>

(***************************************************************************)
(* C17. In non-purge mode, when there is no file at the manifest path, or  *)
(* the file is not JSON, or it has no paths list, the collector ends with  *)
(* a non-zero status and has handled no entry.                             *)
(***************************************************************************)
C17_ManifestFatal ==
    (cpc # "start" /\ ~argv.purge_only /\ argv.temp_file
     /\ manifest \in {"absent", "not_json", "no_paths", "paths_null"}) =>
        /\ exit_status # 0
        /\ nItems.handled = 0 /\ total_added = 0
        /\ Tables = committed

(***************************************************************************)
(* C18: single commit. In a collecting run the committed rows change only  *)
(* in the step that commits all rows of the run, after which the run does  *)
(* nothing more; a fatal error ends the run with a non-zero status, the    *)
(* committed rows as they were before the run, and none of the rows of the *)
(* run left in the tables.                                                 *)
(***************************************************************************)
C18_SingleCommit ==
    [][~argv.purge_only =>
          /\ cpc # "done"
          /\ committed' # committed =>
                cpc = "processing" /\ cpc' = "done" /\ committed' = Tables
          /\ cpc' = "aborted" =>
                /\ exit_status' = 1
                /\ committed' = committed
                /\ hosts' = committed.hosts /\ services' = committed.services
                /\ vuln' = committed.vuln /\ evidence' = committed.evidence]_vars

\* A run that had added an entry met a fatal error at the start of the next
\* group: it ended with 1 and the rows are gone.
C18_Witness ==
    /\ cpc = "aborted"
    /\ exit_status = 1
    /\ total_added > 0
    /\ seqs.vuln > Cardinality(committed.vuln)
    /\ vuln = committed.vuln

(***************************************************************************)
(* C19. The dependency set of a strict plugin is the set of the names of   *)
(* its depends_on that are enabled plugins: disabled and unknown names are *)
(* dropped. A strict plugin whose names are all dropped is in the first    *)
(* wave, and the cyclic-dependency error is raised only for a cycle among  *)
(* the kept names.                                                         *)
(***************************************************************************)
C19_DisabledDepsDropped ==
    pc # "start" =>
        /\ \A p \in DOMAIN graph :
              (config[p].has_strict /\ config[p].strict) =>
                  /\ graph[p] = {d \in config[p].depends_on \cap PluginNames :
                                    config[d].enabled}
                  /\ (graph[p] = {} /\ waveNo >= 1) => wave[p] = 1
        /\ pc = "cyclic" => HasCycle(graph)

\* A strict plugin that names a disabled plugin and an unknown one has run in
\* the first wave, and the run is over without error.
C19_Witness ==
    /\ pc = "done"
    /\ \E p \in DOMAIN graph : \E q \in PluginNames :
          /\ config[p].has_strict /\ config[p].strict
          /\ config[p].depends_on = {UnknownPlugin, q}
          /\ ~config[q].enabled
          /\ wave[p] = 1 /\ Recorded(p)

(***************************************************************************)
(* C20. A plugin has a non-empty dependency set only if its entry has      *)
(* strict_dependencies = true, and a plugin whose entry has                *)
(* strict_dependencies = false has an empty dependency set and is in the   *)
(* first wave.                                                             *)
(***************************************************************************)
C20_EdgesOnlyWhenStrict ==
    pc # "start" =>
        \A p \in DOMAIN graph :
            /\ graph[p] # {} => (config[p].has_strict /\ config[p].strict)
            /\ (config[p].has_strict /\ ~config[p].strict) =>
                  /\ graph[p] = {}
                  /\ waveNo >= 1 => wave[p] = 1

(***************************************************************************)
(* The severity classifier alone: a process calls classify_severity some   *)
(* times, with any entries and custom_keywords.                            *)
(***************************************************************************)
InitSeverity == OrchInit(IdleConfigs) /\ RegInit /\ ColInit /\ LibInit

NextSeverity ==
    \E entry \in SeverityEntries, custom_keywords \in CustomKeywords :
        Classify(entry, custom_keywords)

SpecSeverity == InitSeverity /\ [][NextSeverity]_vars

(***************************************************************************)
(* C14. classify_severity is pure: the level of a call is the level that   *)
(* the entry, the built-in patterns and the custom_keywords of the call    *)
(* give, whatever calls came before.                                       *)
(***************************************************************************)
C14_SeverityPure ==
    lastClassify.level # NULL =>
        lastClassify.level =
            classify_severity(lastClassify.entry, lastClassify.custom_keywords,
                              BuiltInKeywords).level

\* The rank of a level in the order critical, high, medium, low, info.
LevelRank(level) ==
    CASE level = "critical" -> 1 [] level = "high" -> 2 [] level = "medium" -> 3
      [] level = "low" -> 4 [] level = "info" -> 5

\* The levels that have a pattern, among those in effect for the last call,
\* that matches the text of its entry.
MatchingLevels ==
    {level \in DOMAIN lastClassify.keywords \cap Range(SEVERITY_LEVELS) :
        \E i \in 1..Len(lastClassify.keywords[level]) :
            Search(lastClassify.keywords[level][i], TextOf(lastClassify.entry))}

(***************************************************************************)
(* C15. For an entry whose state is not filtered or open|filtered, the     *)
(* level returned is the first of critical, high, medium, low, info that   *)
(* has a matching pattern among the patterns in effect for the call: no    *)
(* level before it has one. When no level has one, the level is info. The  *)
(* state of the entry is a string or is missing: the call returns.         *)
(***************************************************************************)
C15_CascadeOrder ==
    (/\ lastClassify.level # NULL
     /\ ~StateRaises(lastClassify.entry)
     /\ StateOf(lastClassify.entry) \notin {"filtered", "open|filtered"}) =>
        IF MatchingLevels # {}
        THEN /\ lastClassify.level \in MatchingLevels
             /\ \A level \in MatchingLevels :
                   LevelRank(lastClassify.level) <= LevelRank(level)
        ELSE lastClassify.level = "info"

\* The sample of the module: a CVE identifier followed by "exploit", state
\* open. Patterns of critical, high and medium match; the level is critical.
C15_Witness ==
    /\ lastClassify.level = "critical"
    /\ lastClassify.entry = [script_output |-> <<"anonymous", "cve", "Exploit">>,
                             state |-> "open"]
    /\ lastClassify.custom_keywords = << >>
    /\ {"critical", "high", "medium"} \subseteq MatchingLevels

(***************************************************************************)
(* merge_entries alone: one call with two lists of one entry each.         *)
(***************************************************************************)
InitMerge == OrchInit(IdleConfigs) /\ RegInit /\ ColInit /\ LibInit

NextMerge == \E entry_lists \in MergeCalls : Merge(entry_lists)

SpecMerge == InitMerge /\ [][NextMerge]_vars

\* The entries a and b have the same value, or both none, in every
\* important field.
Agree(a, b) ==
    \A i \in 1..Len(IMPORTANT_FIELDS) : a[IMPORTANT_FIELDS[i]] = b[IMPORTANT_FIELDS[i]]

\* The sequence s is the tokens of the set S in sorted order, each once.
IsSortedUnion(s, S) ==
    /\ Range(s) = S
    /\ \A i, j \in 1..Len(s) :
          i < j => \E m, n \in 1..Len(TokenOrder) :
                      m < n /\ TokenOrder[m] = s[i] /\ TokenOrder[n] = s[j]

\* merge_entries([A], [B]) gave one row, whose source is the sorted union of
\* the tokens of the two labels, and merge_entries([B], [A]) gives one row
\* with the same source.
OneRowSortedUnion ==
    LET A == mergeCall.lists[1][1]
        B == mergeCall.lists[2][1]
        swapped == merge_entries(<<mergeCall.lists[2], mergeCall.lists[1]>>)
    IN  /\ Len(mergeCall.result) = 1
        /\ IsSortedUnion(mergeCall.result[1].source, Range(A.source) \cup Range(B.source))
        /\ Len(swapped) = 1
        /\ swapped[1].source = mergeCall.result[1].source

(***************************************************************************)
(* C12 as stated. When A and B agree on every important field,             *)
(* merge_entries([A], [B]) has exactly one row, its source is the sorted   *)
(* plus-joined union of the labels of A and B, and merge_entries([B], [A]) *)
(* gives the same source.                                                  *)
(***************************************************************************)
C12_MergeCommutes ==
    (mergeCall # NoMerge /\ Agree(mergeCall.lists[1][1], mergeCall.lists[2][1])) =>
        OneRowSortedUnion

(***************************************************************************)
(* C12, amended. The same, for A and B that agree on every important field *)
(* and have an important field that is no sentinel; when all important     *)
(* fields of A and B are sentinels the result has no row.                  *)
(***************************************************************************)
C12_MergeCommutesNonEmpty ==
    (mergeCall # NoMerge /\ Agree(mergeCall.lists[1][1], mergeCall.lists[2][1])) =>
        IF is_empty(mergeCall.lists[1][1])
        THEN mergeCall.result = << >>
        ELSE OneRowSortedUnion

\* Two agreeing observations of an open port from different sources, the
\* second label sorting before the first, are one row.
C12_Witness ==
    /\ mergeCall # NoMerge
    /\ Agree(mergeCall.lists[1][1], mergeCall.lists[2][1])
    /\ ~is_empty(mergeCall.lists[1][1])
    /\ mergeCall.lists[1][1].source = <<"ip_tcp">>
    /\ mergeCall.lists[2][1].source = <<"domain_tcp">>
    /\ Len(mergeCall.result) = 1
    /\ mergeCall.result[1].source = <<"domain_tcp", "ip_tcp">>

(***************************************************************************)
(* merge_entries with three observations of one port.                      *)
(***************************************************************************)
NextMergeMany == \E entry_lists \in MergeCallsMany : Merge(entry_lists)

SpecMergeMany == InitMerge /\ [][NextMergeMany]_vars

\* The sentinels of an important field.
Sentinels == {"-", "", "None", "null", "0"}

\* The string forms of field k of a and of b, stripped, are equal or both
\* sentinels.
FieldMatches(a, b, k) ==
    \/ StrStrip(Get(a, k, "-")) = StrStrip(Get(b, k, "-"))
    \/ (StrStrip(Get(a, k, "-")) \in Sentinels /\ StrStrip(Get(b, k, "-")) \in Sentinels)

\* Every important field of a and b matches.
Matches(a, b) == \A i \in 1..Len(IMPORTANT_FIELDS) : FieldMatches(a, b, IMPORTANT_FIELDS[i])

(***************************************************************************)
(* C21: canonical merge rule. Two entries with the same (port, protocol,   *)
(* service_name), neither with all important fields sentinels, are merged  *)
(* into one row iff for every important field their stripped string values *)
(* are equal or both among the sentinels "-", "", "None", "null", "0".     *)
(***************************************************************************)
C21_CanonicalMerge ==
    (/\ mergeCall # NoMerge
     /\ ~is_empty(mergeCall.lists[1][1]) /\ ~is_empty(mergeCall.lists[2][1])
     /\ EntryKey(mergeCall.lists[1][1]) = EntryKey(mergeCall.lists[2][1])) =>
        (Len(mergeCall.result) = 1
            <=> Matches(mergeCall.lists[1][1], mergeCall.lists[2][1]))

\* The input entry e is in the rows: a row has the tokens of its source and
\* matches it on every important field.
Preserved(e, rows) ==
    \E i \in 1..Len(rows) : Range(e.source) \subseteq Range(rows[i].source) /\ Matches(e, rows[i])

(***************************************************************************)
(* C22: merge_entries never overwrites. For a call with any number of      *)
(* lists, every input entry that is not empty is in the output: as a row   *)
(* of its own or merged into a row that agrees with it on all important    *)
(* fields.                                                                 *)
(***************************************************************************)
C22_NeverOverwrites ==
    mergeCall # NoMerge =>
        \A i \in 1..Len(mergeCall.lists) : \A j \in 1..Len(mergeCall.lists[i]) :
            ~is_empty(mergeCall.lists[i][j]) =>
                Preserved(mergeCall.lists[i][j], mergeCall.result)

(***************************************************************************)
(* The orchestrator under the event loop: a step that can be taken is      *)
(* taken. asyncio runs every task that is ready, and a scan that is        *)
(* awaited returns or raises.                                              *)
(***************************************************************************)
\* The configurations without a cycle: a plugin is enabled or not, is strict,
\* and names plugins earlier in the file (a disabled plugin names none: its
\* list is never read).
LiveConfigs ==
    {c \in [PluginNames -> ConfigEntries] :
        \A p \in PluginNames :
            /\ c[p].has_strict
            /\ c[p].strict
            /\ c[p].depends_on \subseteq Before(p)
            /\ Cardinality(c[p].depends_on) <= MaxDeps
            /\ (c[p].enabled \/ c[p].depends_on = {})}

InitLive == OrchInit(LiveConfigs) /\ RegInit /\ ColInit /\ LibInit

SpecLive == InitLive /\ [][Next]_vars /\ WF_vars(Next)

(***************************************************************************)
(* C26: termination. Unless the graph is cyclic or a run_plugin call       *)
(* raises, orchestrate eventually returns with the executed set equal to   *)
(* the set of the enabled plugins; every wave it dispatches has a plugin,  *)
(* and the wave of a plugin, once dispatched, never changes.               *)
(***************************************************************************)
C26_Terminates ==
    /\ <>(pc = "cyclic" \/ pc = "crashed" \/ (pc = "done" /\ executed = EnabledNames))
    /\ [](pc = "gather" => to_run # << >>)
    /\ [][\A p \in PluginNames : wave[p] # 0 => wave'[p] = wave[p]]_vars

\* A run of three plugins in three waves has returned.
C26_Witness ==
    /\ pc = "done"
    /\ executed = EnabledNames
    /\ Cardinality(executed) = 3
    /\ waveNo = 3

\* The install or the scan of p failed: install_plugin returned False or
\* raised, or scan raised.
Failed(p) == how[p] \in {"install_failed", "install_error", "scan_raised"}

\* orchestrate has ended: it returned (line 96) or an exception left it.
Ended == pc \in {"done", "crashed"}

(***************************************************************************)
(* C29. A failed dependency unblocks its dependents: when the install or   *)
(* the scan of a plugin has failed, every plugin that has it in its        *)
(* dependency set is still dispatched: orchestrate does not end with such  *)
(* a plugin never started.                                                 *)
(***************************************************************************)
C29_FailedDependencyUnblocks ==
    Ended =>
        \A p, q \in PluginNames :
            (Failed(p) /\ q \in DOMAIN graph /\ p \in graph[q]) => Started(q)

(***************************************************************************)
(* Failures of single entries in the collector                             *)
(***************************************************************************)

\* The step of conn.commit() in collect, line 350; before it committed is the
\* database as the run found it, after it the database as the run leaves it.
CommitStep == cpc = "processing" /\ cpc' = "done"

\* C23: per-entry failure isolation: an entry whose persisting fails is
\* skipped, and every other kept entry is persisted and committed; each of
\* the total_added entries that were persisted has its vuln row in the
\* database after the commit.
C23_EntryFailureIsolated ==
    [][CommitStep =>
          Cardinality(committed'.vuln) >= Cardinality(committed.vuln) + total_added]_vars

\* C30: a skipped entry leaves nothing behind: when the transaction is one
\* that commits, the number of vuln rows the run has committed is the
\* total_added that process_temp_files returns.
C30_SkippedLeavesNothing ==
    [][CommitStep /\ ~txnAborted =>
          Cardinality(committed'.vuln) = Cardinality(committed.vuln) + total_added]_vars

\* The entry handled last has reached line 260, the test for a service.
ReachedServiceTest == lastItem # NoItem /\ lastItem.fail \in {"none", "vuln", "evidence"}

\* C24: a service row is created or looked up for an entry iff its port,
\* protocol and service_name are all present and no sentinel; otherwise the
\* finding is host-level, with no service id.
C24_ServiceIffNonSentinel ==
    ReachedServiceTest =>
        /\ lastItem.calledService <=>
               /\ lastItem.key.port \notin SentinelValues
               /\ lastItem.key.protocol \notin SentinelValues
               /\ lastItem.key.service_name \notin SentinelValues
        /\ ~lastItem.calledService => lastItem.service_id = NoId

(***************************************************************************)
(* The collector on entries that declare a severity                        *)
(***************************************************************************)
InitFindings ==
    /\ OrchInit(IdleConfigs)
    /\ LibInit
    /\ RegInit
    /\ \E db \in {EmptyTables, FilledTables} :
          ColInitWith([purge_only |-> FALSE, temp_file |-> TRUE], "ok", db)

NextFindings ==
    \/ StartCollect
    \/ \E plugin_name \in CollectorPlugins : NextGroup(plugin_name)
    \/ \E item \in DeclaringItems, outcome \in Outcomes : ProcessItem(item, outcome)
    \/ Commit

SpecFindings == InitFindings /\ [][NextFindings]_vars

\* C28: every vuln row the collector persists has a severity that is one
\* of the five levels.
C28_SeverityInLevels ==
    \A v \in vuln \cup committed.vuln : v.severity \in Range(SEVERITY_LEVELS)

\* C27: classify_severity is total: whatever the entry, a missing or empty
\* one or one whose state is null or no string, the call returns one of the
\* five levels and raises nothing.
C27_ClassifyTotal ==
    lastClassify # NoClassify => lastClassify.level \in Range(SEVERITY_LEVELS)
====
